---------------------------- MODULE Spec2Model ----------------------------
(***************************************************************************)
(* The typed-error pipeline of ModernCppErrorHandling:                     *)
(*   LoadConfig(path).and_then(ValidateData).and_then(ProcessData)         *)
(* as driven by Example/main.c, and the three stages called one at a time  *)
(* as UnitTest/Basic.cpp does.                                             *)
(*                                                                         *)
(* A std::string is modelled as [chars, pad]: the characters `chars`       *)
(* followed by `pad` blocks of BlockLen copies of a filler character that  *)
(* occurs in no literal of the program.  pad = 0 for ordinary strings; a   *)
(* positive pad stands for a very long string (gigabytes), which cannot be *)
(* written out character by character but whose length() the code converts *)
(* to int.  A size_t is the two-digit number [hi, lo] in base BlockLen,    *)
(* since the model checker's own integers are no wider than int.           *)
(***************************************************************************)
EXTENDS Integers, Sequences, FiniteSets, TLC

----------------------------------------------------------------------------
(* Bounds of the model *)

\* a source content is the concatenation of at most MaxChunks chunks
MaxChunks == 3
\* the unit-test harness runs at most MaxCalls tests
MaxCalls == 2
\* threads that run the chain concurrently
NRuns == 2

----------------------------------------------------------------------------
(* Program constants *)

\* width of int (Result::final_result_code, ConfigParseError::line_number)
IntBits == 32
\* ProcessData rejects processed_data shorter than this
MinLength == 10
\* the line number LoadConfig reports
ParseLine == 1
\* std::string::npos, as find's "not found"
npos == -1

----------------------------------------------------------------------------
(* Strings *)

S(cs) == [chars |-> cs, pad |-> 0]

\* the string literals of Config_Processing_Utils.cpp
LitMalformed == <<"m","a","l","f","o","r","m","e","d">>
LitInvalidField == <<"i","n","v","a","l","i","d","_","f","i","e","l","d">>
LitValidated == <<"V","a","l","i","d","a","t","e","d",":"," ">>
LitTask == "Data Processing"
LitDetails == "Input data too short for task"
LitDisallowed == "contains disallowed value"

\* the filler of a long string comes in blocks of this many characters
BlockLen == 2 ^ (IntBits \div 2)

\* std::string::length(), a size_t: hi * BlockLen + lo
length(s) == [hi |-> s.pad, lo |-> Len(s.chars)]

\* <= in place of <
less_or_equal(len, n) == len.hi = 0 /\ len.lo <= n

\* size_t < small constant
less(len, n) == len.hi = 0 /\ len.lo < n

\* std::string::empty()
empty(s) == less(length(s), 1)

\* a find that looks at the start of the string only
find_at_start(s, lit) ==
    IF Len(s.chars) >= Len(lit) /\ SubSeq(s.chars, 1, Len(lit)) = lit
    THEN 0 ELSE npos

\* std::string::find(literal): the least 0-based position where the literal
\* occurs, npos when it occurs nowhere.  The filler of the pad is no
\* character of a literal, so an occurrence lies within chars.
find(s, lit) ==
    LET n == Len(lit)
        m == Len(s.chars)
        hits == {i \in 0..(m - n) : \A k \in 1..n : s.chars[i + k] = lit[k]}
    IN  IF hits = {} THEN npos
        ELSE CHOOSE i \in hits : \A j \in hits : i <= j

\* a concatenation that loses the literal
Plus_dropped(lit, s) == s

\* a concatenation the wrong way round
Plus_swapped(lit, s) == [chars |-> s.chars \o lit, pad |-> s.pad]

\* operator+(const char*, const std::string&)
Plus(lit, s) == [chars |-> lit \o s.chars, pad |-> s.pad]

\* static_cast<int>(size_t): reduction modulo 2^IntBits into the int range
static_cast_int(len) ==
    LET h == len.hi % BlockLen
    IN  (IF h >= BlockLen \div 2 THEN h - BlockLen ELSE h) * BlockLen + len.lo

----------------------------------------------------------------------------
(* Failure catalog, payloads and std::expected *)

ConfigReadError(filename) == [kind |-> "ConfigReadError", filename |-> filename]
ConfigParseError(line_content, line_number) ==
    [kind |-> "ConfigParseError", line_content |-> line_content,
     line_number |-> line_number]
ValidationError(field_name, invalid_value) ==
    [kind |-> "ValidationError", field_name |-> field_name,
     invalid_value |-> invalid_value]
ProcessingError(task_name, details) ==
    [kind |-> "ProcessingError", task_name |-> task_name, details |-> details]

Config(data) == [data |-> data]
ValidatedData(processed_data) == [processed_data |-> processed_data]
Result(final_result_code) == [final_result_code |-> final_result_code]

\* a failure stored under the tag of a success
unexpected_as_value(e) == [has_value |-> TRUE, val |-> e]

\* std::expected<T, PipelineError>: one storage, tagged by has_value
expected(v) == [has_value |-> TRUE, val |-> v]
unexpected(e) == [has_value |-> FALSE, val |-> e]
has_value(r) == r.has_value

----------------------------------------------------------------------------
(* The byte source *)

\* the state of the byte source behind a path: no such file; a directory
\* (std::ifstream opens it, reading yields nothing); a regular file
Missing == [opens |-> FALSE, readable |-> FALSE, content |-> S(<<>>)]
Directory == [opens |-> TRUE, readable |-> FALSE, content |-> S(<<>>)]
File(c) == [opens |-> TRUE, readable |-> TRUE, content |-> c]

\* std::ifstream file(filename); file.is_open()
is_open(src) == src.opens

\* a read that stops at the first line break, as std::getline does
rdbuf_first_line(src) ==
    IF ~src.readable THEN S(<<>>)
    ELSE LET cs == src.content.chars
             nl == {i \in DOMAIN cs : cs[i] = "\n"}
         IN  IF nl = {} THEN src.content
             ELSE S(SubSeq(cs, 1, (CHOOSE i \in nl : \A j \in nl : i <= j) - 1))

\* buffer << file.rdbuf(); buffer.str()
rdbuf(src) == IF src.readable THEN src.content ELSE S(<<>>)

----------------------------------------------------------------------------
(* The three stages *)

\* LoadConfig that leaves the check for "malformed" to a later stage
LoadConfig_lenient(src, filename) ==
    IF ~is_open(src)
    THEN unexpected(ConfigReadError(filename))
    ELSE LET content == rdbuf(src)
         IN  IF empty(content)
             THEN unexpected(ConfigParseError(S(LitMalformed), ParseLine))
             ELSE expected(Config(content))

\* LoadConfig that reports a read failure without the path it was given
LoadConfig_anonymous(src, filename) ==
    IF ~is_open(src)
    THEN unexpected(ConfigReadError(""))
    ELSE LET content == rdbuf(src)
         IN  IF empty(content) \/ find(content, LitMalformed) # npos
             THEN unexpected(ConfigParseError(S(LitMalformed), ParseLine))
             ELSE expected(Config(content))

LoadConfig(src, filename) ==
    IF ~is_open(src)
    THEN unexpected(ConfigReadError(filename))
    ELSE LET content == rdbuf(src)
         IN  IF empty(content) \/ find(content, LitMalformed) # npos
             THEN unexpected(ConfigParseError(S(LitMalformed), ParseLine))
             ELSE expected(Config(content))

\* ValidateData that names the offending text instead of the field
ValidateData_echo(config) ==
    IF find(config.data, LitInvalidField) # npos
    THEN unexpected(ValidationError(config.data, LitDisallowed))
    ELSE expected(ValidatedData(Plus(LitValidated, config.data)))

ValidateData(config) ==
    IF find(config.data, LitInvalidField) # npos
    THEN unexpected(ValidationError(S(LitInvalidField), LitDisallowed))
    ELSE expected(ValidatedData(Plus(LitValidated, config.data)))

\* ProcessData that reports short data under the kind of the stage before
ProcessData_as_validation(data) ==
    IF less(length(data.processed_data), MinLength)
    THEN unexpected(ValidationError(S(<<"p","r","o","c","e","s","s","e","d","_","d","a","t","a">>),
                                    LitDetails))
    ELSE expected(Result(static_cast_int(length(data.processed_data))))

\* ProcessData that counts the terminating NUL as well
ProcessData_plus_one(data) ==
    IF less(length(data.processed_data), MinLength)
    THEN unexpected(ProcessingError(LitTask, LitDetails))
    ELSE expected(Result(static_cast_int(length(data.processed_data)) + 1))

ProcessData(data) ==
    IF less(length(data.processed_data), MinLength)
    THEN unexpected(ProcessingError(LitTask, LitDetails))
    ELSE expected(Result(static_cast_int(length(data.processed_data))))

----------------------------------------------------------------------------
(* The stages as the two header copies define them inline *)

\* the header with the definitions inline, first copy
part_000_LoadConfig(src, filename) ==
    IF ~is_open(src)
    THEN unexpected(ConfigReadError(filename))
    ELSE LET content == rdbuf(src)
         IN  IF empty(content) \/ find(content, LitMalformed) # npos
             THEN unexpected(ConfigParseError(S(LitMalformed), 1))
             ELSE expected(Config(content))

part_000_ValidateData(config) ==
    IF find(config.data, LitInvalidField) # npos
    THEN unexpected(ValidationError(S(LitInvalidField),
                                    "contains disallowed value"))
    ELSE expected(ValidatedData(Plus(LitValidated, config.data)))

part_000_ProcessData(data) ==
    IF less(length(data.processed_data), 10)
    THEN unexpected(ProcessingError("Data Processing",
                                    "Input data too short for task"))
    ELSE expected(Result(static_cast_int(length(data.processed_data))))

\* the header with the definitions inline, second copy
part_001_LoadConfig(src, filename) ==
    IF ~is_open(src)
    THEN unexpected(ConfigReadError(filename))
    ELSE LET content == rdbuf(src)
         IN  IF empty(content) \/ find(content, LitMalformed) # npos
             THEN unexpected(ConfigParseError(S(LitMalformed), 1))
             ELSE expected(Config(content))

part_001_ValidateData(config) ==
    IF find(config.data, LitInvalidField) # npos
    THEN unexpected(ValidationError(S(LitInvalidField),
                                    "contains disallowed value"))
    ELSE expected(ValidatedData(Plus(LitValidated, config.data)))

\* ProcessData of the header that rejects length 10 as well
part_001_ProcessData_strict(data) ==
    IF less_or_equal(length(data.processed_data), 10)
    THEN unexpected(ProcessingError("Data Processing",
                                    "Input data too short for task"))
    ELSE expected(Result(static_cast_int(length(data.processed_data))))

part_001_ProcessData(data) ==
    IF less(length(data.processed_data), 10)
    THEN unexpected(ProcessingError("Data Processing",
                                    "Input data too short for task"))
    ELSE expected(Result(static_cast_int(length(data.processed_data))))

\* the copies of the stage definitions beside Config_Processing_Utils.cpp
Copies == {"part_000", "part_001"}

LoadConfigOf(copy, src, fname) ==
    CASE copy = "part_000" -> part_000_LoadConfig(src, fname)
      [] copy = "part_001" -> part_001_LoadConfig(src, fname)

----------------------------------------------------------------------------
(* The Advanced test pipeline: demo::ReadAll, demo::ParseConfig *)

\* the printable characters, in the order of their codes from 32 on (the
\* quotation mark, the backslash and the backquote, which no literal here
\* has, by name)
Ascii ==
    <<
      " ", "!", "(quote)", "#", "$", "%", "&", "'", "(", ")", "*", "+",
      ",", "-", ".", "/", "0", "1", "2", "3", "4", "5", "6", "7",
      "8", "9", ":", ";", "<", "=", ">", "?", "@", "A", "B", "C",
      "D", "E", "F", "G", "H", "I", "J", "K", "L", "M", "N", "O",
      "P", "Q", "R", "S", "T", "U", "V", "W", "X", "Y", "Z", "[",
      "(backslash)", "]", "^", "_", "(backquote)", "a", "b", "c", "d", "e", "f", "g",
      "h", "i", "j", "k", "l", "m", "n", "o", "p", "q", "r", "s",
      "t", "u", "v", "w", "x", "y", "z", "{", "|", "}", "~">>

\* the code of a character
Ord(c) == 31 + (CHOOSE i \in DOMAIN Ascii : Ascii[i] = c)

\* a string literal as the std::string of its bytes (each 0..255)
Bytes(cs) == S([i \in DOMAIN cs |-> Ord(cs[i])])

LitPermDenied == Bytes(<<"P","E","R","M","_","D","E","N","I","E","D">>).chars
LitTrigger == Bytes(<<"T","R","I","G","G","E","R","_","I","O","_","E","R","R","O","R">>).chars
LitMALFORMED == Bytes(<<"M","A","L","F","O","R","M","E","D">>).chars
LitOOM == Bytes(<<"O","O","M">>).chars
LitOpen == Bytes(<<"o","p","e","n">>)
LitRead == Bytes(<<"r","e","a","d">>)
LitReadSimulated == Bytes(<<"r","e","a","d"," ","(","s","i","m","u","l","a","t","e","d",")">>)

\* ParseConfig rejects content larger than this
MaxSize == 1024
\* the line BadFormatError reports
BadLine == 1

\* the alternatives of Error
FileNotFoundError(path) == [kind |-> "FileNotFoundError", path |-> path]
PermissionError(path) == [kind |-> "PermissionError", path |-> path]
IOError(path, op) == [kind |-> "IOError", path |-> path, op |-> op]
BadFormatError(reason, line) ==
    [kind |-> "BadFormatError", reason |-> reason, line |-> line]
MemoryError(reason) == [kind |-> "MemoryError", reason |-> reason]

\* what a path leads to: nothing; a file the process may not open; a
\* directory (std::ifstream opens it, the first read fails); a regular file
NoEntry ==
    [exists |-> FALSE, opens |-> FALSE, reads |-> FALSE, content |-> S(<<>>)]
Locked ==
    [exists |-> TRUE, opens |-> FALSE, reads |-> FALSE, content |-> S(<<>>)]
Dir ==
    [exists |-> TRUE, opens |-> TRUE, reads |-> FALSE, content |-> S(<<>>)]
Regular(c) ==
    [exists |-> TRUE, opens |-> TRUE, reads |-> TRUE, content |-> c]

\* fs::path::filename(): what follows the last '/'
path_filename(p) ==
    LET cs == p.chars
        sl == {i \in DOMAIN cs : cs[i] = Ord("/")}
    IN  IF sl = {} THEN p
        ELSE S(SubSeq(cs, (CHOOSE i \in sl : \A j \in sl : j <= i) + 1, Len(cs)))

\* size_t > small constant
greater(len, n) == len.hi > 0 \/ len.lo > n

\* an exception that leaves the function in place of a return
thrown(what) == [thrown |-> what]
returned(r) == "has_value" \in DOMAIN r

\* fin.good() / fin.eof() after std::istreambuf_iterator has read the file:
\* the iterators work on the stream buffer and leave the stream's state alone
rdstate(ent) == [good |-> TRUE, eof |-> FALSE]

\* ReadAll that looks at the name before it looks for the file
ReadAll_name_first(p, ent) ==
    IF find(path_filename(p), LitPermDenied) # npos
    THEN unexpected(PermissionError(p))
    ELSE IF ~ent.exists
    THEN unexpected(FileNotFoundError(p))
    ELSE IF ~ent.opens
    THEN unexpected(IOError(p, LitOpen))
    ELSE IF ~ent.reads
    THEN thrown("std::ios_base::failure")
    ELSE IF find(ent.content, LitTrigger) # npos
    THEN unexpected(IOError(p, LitReadSimulated))
    ELSE expected(ent.content)

\* demo::ReadAll(p).  Reading a directory makes basic_filebuf::underflow
\* throw std::ios_base::failure out of the std::string constructor.
ReadAll(p, ent) ==
    IF ~ent.exists
    THEN unexpected(FileNotFoundError(p))
    ELSE IF find(path_filename(p), LitPermDenied) # npos
    THEN unexpected(PermissionError(p))
    ELSE IF ~ent.opens
    THEN unexpected(IOError(p, LitOpen))
    ELSE IF ~ent.reads
    THEN thrown("std::ios_base::failure")
    ELSE IF ~rdstate(ent).good /\ ~rdstate(ent).eof
    THEN unexpected(IOError(p, LitRead))
    ELSE IF find(ent.content, LitTrigger) # npos
    THEN unexpected(IOError(p, LitReadSimulated))
    ELSE expected(ent.content)

\* char -> int (char is signed on the target)
to_int(b) == IF b >= 128 THEN b - 256 ELSE b

\* a conversion to char that saturates instead of wrapping
static_cast_char_saturating(n) == IF n < -128 THEN 128 ELSE n % 256

\* static_cast<char>(int), as the byte that represents the char
static_cast_char(n) == n % 256

\* ParseConfig that checks the size before the token
ParseConfig_size_first(content) ==
    IF greater(length(content), MaxSize)
    THEN unexpected(MemoryError("simulated out-of-memory"))
    ELSE IF find(content, LitMALFORMED) # npos
    THEN unexpected(BadFormatError("MALFORMED token", BadLine))
    ELSE expected(S([i \in DOMAIN content.chars |->
                        IF content.chars[i] = 0 THEN content.chars[i]
                        ELSE static_cast_char(to_int(content.chars[i]) - 1)]))

\* demo::ParseConfig(std::string content) of part_003 and Advanced.cpp
ParseConfig(content) ==
    IF find(content, LitMALFORMED) # npos
    THEN unexpected(BadFormatError("MALFORMED token", BadLine))
    ELSE IF greater(length(content), MaxSize)
    THEN unexpected(MemoryError("simulated out-of-memory"))
    ELSE expected(S([i \in DOMAIN content.chars |->
                        IF content.chars[i] = 0 THEN content.chars[i]
                        ELSE static_cast_char(to_int(content.chars[i]) - 1)]))

\* demo::ParseConfig(std::string_view content) of test.cpp
test_cpp_ParseConfig(content) ==
    IF find(content, LitMALFORMED) # npos
    THEN unexpected(BadFormatError("MALFORMED token", BadLine))
    ELSE IF find(content, LitOOM) # npos
    THEN unexpected(MemoryError("simulated out-of-memory"))
    ELSE expected(static_cast_int(length(content)))

\* the test suites that hold a copy of the pipeline
Suites == {"part_003", "Advanced.cpp", "test.cpp"}

\* make_file that writes nothing
make_file_empty(suite, content) == Regular(S(<<>>))

\* ErrorCasesTest::make_file(name, content): part_003 and test.cpp write the
\* content.  Advanced.cpp has "std::ofstream(p);" alone, which never uses
\* content: read as the temporary stream it is meant to be, it creates the
\* file and writes nothing (as written it declares a second p, which the
\* compiler rejects).
make_file(suite, content) ==
    IF suite = "Advanced.cpp" THEN Regular(S(<<>>)) ELSE Regular(content)

----------------------------------------------------------------------------
(* Inputs *)

Paths == {"valid_config.txt", "non_existent_config.txt", "bad.cfg"}

Chunks == {
    <<"x">>,
    <<"\n">>,
    <<"m","a","l","f","o","r","m","e">>,
    <<"d">>,
    LitMalformed,
    LitInvalidField,
    <<"s","h","o","r","t">>,
    <<"v","a","l","i","d","_","d","a","t","a","_","c","o","n","t","e","n","t">>
}

RECURSIVE Concats(_)
Concats(n) ==
    IF n = 0 THEN {<<>>}
    ELSE LET prev == Concats(n - 1)
         IN  prev \cup {p \o c : p \in prev, c \in Chunks}

\* pads that put a length just below and just above the largest int
BigPads == {BlockLen \div 2 - 1, BlockLen \div 2}

Contents ==
    {S(cs) : cs \in Concats(MaxChunks)}
        \cup {[chars |-> <<>>, pad |-> p] : p \in BigPads}

Sources == {Missing, Directory} \cup {File(c) : c \in Contents}

----------------------------------------------------------------------------
(* State *)

VARIABLES
    pc,        \* "Start", "Loaded", "Validated", "Done", "Reported": main.c's
               \* chain and its report; "Test": the unit tests
    filename,  \* the path the driver passes to LoadConfig
    source,    \* the state of the byte source behind filename; a unit test
               \* also builds its Config and ValidatedData from its content
    res,       \* the std::expected the chain holds so far
    calls,     \* the stage invocations of this run: [fn, arg, src, ret]
    ncalls,    \* tests run so far
    sink,      \* std::cout / std::cerr as the stages' diagnostic sink:
               \* [ok, lines]; a sink that is not ok drops what is written
    twin,      \* the same run over a sink in the other state: [res, fns]
    open_handles, \* byte-source handles open between the steps
    accessed,  \* the branches of res the last inspection read
    handled,   \* the handlers std::visit invoked: [handler, e]
    report,    \* what HandlePipelineResult wrote
    runs,      \* concurrent runs of the chain, one record per thread:
               \* [pc, filename, source, res, fns]
    adv        \* the Advanced test suite: [pc, suite, path, entry, res,
               \* calls, accessed]

vars == <<pc, filename, source, res, calls, ncalls,
          sink, twin, open_handles, accessed, handled, report, runs, adv>>

\* no Advanced test is running
NoAdv == [pc |-> "Off"]

Unset == [unset |-> TRUE]
NoSource == Missing

Call(fn, arg, src, ret) == [fn |-> fn, arg |-> arg, src |-> src, ret |-> ret]

\* the callables main.c hands to and_then
Stage(fn, arg) ==
    CASE fn = "ValidateData" -> ValidateData(arg)
      [] fn = "ProcessData" -> ProcessData(arg)
      [] fn = "ParseConfig" -> ParseConfig(arg)
      [] fn = "test_cpp::ParseConfig" -> test_cpp_ParseConfig(arg)
      [] fn = "part_000::ValidateData" -> part_000_ValidateData(arg)
      [] fn = "part_000::ProcessData" -> part_000_ProcessData(arg)
      [] fn = "part_001::ValidateData" -> part_001_ValidateData(arg)
      [] fn = "part_001::ProcessData" -> part_001_ProcessData(arg)

\* a default-constructed argument of a stage: Config{}, ValidatedData{}
DefaultArg(fn) ==
    CASE fn = "ValidateData" -> Config(S(<<>>))
      [] fn = "ProcessData" -> ValidatedData(S(<<>>))

\* and_then that calls f whatever r holds (on a default-constructed payload
\* when r is a failure) and hands a failure on
and_then_eager(r, fn) ==
    LET a == IF has_value(r) THEN r.val ELSE DefaultArg(fn)
    IN  [out |-> IF has_value(r) THEN Stage(fn, a) ELSE r,
         probe |-> <<Call(fn, a, NoSource, Stage(fn, a))>>]

\* and_then that wraps the failure it hands on into a failure of its own
and_then_wrap(r, fn) ==
    IF has_value(r)
    THEN [out |-> Stage(fn, r.val),
          probe |-> <<Call(fn, r.val, NoSource, Stage(fn, r.val))>>]
    ELSE [out |-> unexpected(ProcessingError(fn, "upstream stage failed")),
          probe |-> <<>>]

\* and_then that answers a failure by running f on a default-constructed
\* payload and adopting what f returns
and_then_recover(r, fn) ==
    LET a == IF has_value(r) THEN r.val ELSE DefaultArg(fn)
    IN  [out |-> Stage(fn, a),
         probe |-> <<Call(fn, a, NoSource, Stage(fn, a))>>]

\* and_then that calls f a second time when its first call fails
and_then_retry(r, fn) ==
    IF has_value(r)
    THEN LET c == Call(fn, r.val, NoSource, Stage(fn, r.val))
         IN  [out |-> c.ret,
              probe |-> IF has_value(c.ret) THEN <<c>> ELSE <<c, c>>]
    ELSE [out |-> r, probe |-> <<>>]

\* std::expected::and_then(f): f is applied to the held value of a success;
\* a failure is handed on as it is and f is not called.  `probe` lists the
\* invocation of f, if any.
and_then(r, fn) ==
    IF has_value(r)
    THEN [out |-> Stage(fn, r.val),
          probe |-> <<Call(fn, r.val, NoSource, Stage(fn, r.val))>>]
    ELSE [out |-> r, probe |-> <<>>]

----------------------------------------------------------------------------
(* The observability sink and the byte-source handle *)

\* std::cout << ... / std::cerr << ...: a stream in a failed state drops the
\* insertion and does not throw
write(sk, line) ==
    IF sk.ok THEN [sk EXCEPT !.lines = Append(@, line)] ELSE sk

\* the DEBUG line a stage writes before it returns ret
LogLine(fn, fname, ret) ==
    CASE fn = "LoadConfig" ->
            IF has_value(ret)
            THEN <<"cout", "DEBUG: Config loaded successfully from ", fname>>
            ELSE IF ret.val.kind = "ConfigReadError"
            THEN <<"cerr", "DEBUG: LoadConfig failed to open ", fname>>
            ELSE <<"cerr", "DEBUG: LoadConfig detected malformed config in ", fname>>
      [] fn = "ValidateData" ->
            IF has_value(ret)
            THEN <<"cout", "DEBUG: Data validated successfully.">>
            ELSE <<"cerr", "DEBUG: ValidateData detected invalid field.">>
      [] fn = "ProcessData" ->
            IF has_value(ret)
            THEN <<"cout", "DEBUG: Data processed successfully.">>
            ELSE <<"cerr", "DEBUG: ProcessData detected data too short.">>

\* a stage that gives up when its diagnostic line cannot be written
Emit_checked(ret, line, sk) ==
    IF sk.ok
    THEN [ret |-> ret, sink |-> write(sk, line)]
    ELSE [ret |-> unexpected(ProcessingError("log", "sink unavailable")),
          sink |-> sk]

\* std::cerr << line << std::endl; return ret;
Emit(ret, line, sk) == [ret |-> ret, sink |-> write(sk, line)]

\* the sink of the twin run: in the other state
TwinSink(sk) == [ok |-> ~sk.ok, lines |-> <<>>]

\* std::ifstream file(filename): the handles the constructor acquires
ifstream_open(src) == IF is_open(src) THEN 1 ELSE 0

\* the return statement LoadConfig leaves by
LoadConfig_exit(src, ret) ==
    IF ~is_open(src) THEN "open_failed"
    ELSE IF has_value(ret) THEN "loaded" ELSE "parse_failed"

\* a handle that is closed by hand on the way to success only
ifstream_close_on_success(exit, h) == IF exit = "loaded" THEN h ELSE 0

\* ~ifstream(): `file` is a local of LoadConfig, destroyed at every return;
\* the handles it releases
ifstream_close(exit, h) == h

\* a call of LoadConfig with its effects on the sink and on the handles
LoadStep(src, fname, sk) ==
    LET r == LoadConfig(src, fname)
        e == Emit(r, LogLine("LoadConfig", fname, r), sk)
        h == ifstream_open(src)
    IN  [res |-> e.ret,
         probe |-> <<Call("LoadConfig", fname, src, e.ret)>>,
         sink |-> e.sink,
         handles |-> h - ifstream_close(LoadConfig_exit(src, r), h)]

\* a direct call of ValidateData or ProcessData with its effect on the sink
DirectStep(fn, arg, sk) ==
    LET r == Stage(fn, arg)
        e == Emit(r, LogLine(fn, "", r), sk)
    IN  [res |-> e.ret,
         probe |-> <<Call(fn, arg, NoSource, e.ret)>>,
         sink |-> e.sink]

\* one .and_then(...) of the chain with its effect on the sink
ChainStep(r, fn, sk) ==
    LET s == and_then(r, fn)
    IN  IF s.probe = <<>>
        THEN [res |-> s.out, probe |-> <<>>, sink |-> sk]
        ELSE LET e == Emit(s.out, LogLine(fn, "", s.probe[1].ret), sk)
             IN  [res |-> e.ret, probe |-> s.probe, sink |-> e.sink]

FnsOf(probe) == [i \in DOMAIN probe |-> probe[i].fn]

----------------------------------------------------------------------------
(* The reporter of main.c *)

Digit(d) == <<"0","1","2","3","4","5","6","7","8","9">>[d + 1]

RECURSIVE NatDigits(_)
NatDigits(n) ==
    IF n < 10 THEN <<Digit(n)>>
    ELSE NatDigits(n \div 10) \o <<Digit(n % 10)>>

\* std::ostream << int: the decimal digits, '-' first when negative
decimal(n) ==
    IF n >= 0 THEN S(NatDigits(n))
    ELSE LET m == n % 10
             rest == IF m = 0 THEN -(n \div 10) ELSE -((n \div 10) + 1)
             last == IF m = 0 THEN 0 ELSE 10 - m
         IN  S(<<"-">> \o (IF rest = 0 THEN <<>> ELSE NatDigits(rest))
                 \o <<Digit(last)>>)

\* the parameter types of the four lambdas handed to Overloaded
Handlers ==
    <<"ConfigReadError", "ConfigParseError", "ValidationError", "ProcessingError">>

\* std::variant::index(), as the name of the alternative held
index(e) == IF "kind" \in DOMAIN e THEN e.kind ELSE "valueless"

\* a visitor that has lost its first overload
visit_without_first(hs, e) ==
    LET Accepts(h) == h = index(e)
    IN  SelectSeq(Tail(hs), Accepts)

\* std::visit(Overloaded{...}, e): overload resolution picks the lambdas
\* whose parameter type is the alternative held
visit(hs, e) ==
    LET Accepts(h) == h = index(e)
    IN  SelectSeq(hs, Accepts)

\* what the lambda for alternative h writes to std::cerr
Message(h, e) ==
    CASE h = "ConfigReadError" ->
            <<"Configuration Read Error: Could not open file '", e.filename, "'\n">>
      [] h = "ConfigParseError" ->
            <<"Configuration Parse Error: Malformed content at line ",
              decimal(e.line_number), " (Context: '", e.line_content, "')\n">>
      [] h = "ValidationError" ->
            <<"Data Validation Error: Field '", e.field_name,
              "' has invalid value '", e.invalid_value, "'\n">>
      [] h = "ProcessingError" ->
            <<"Data Processing Error: Task '", e.task_name,
              "' failed. Details: ", e.details, "\n">>

RECURSIVE Messages(_, _)
Messages(hs, e) ==
    IF hs = <<>> THEN <<>>
    ELSE Message(Head(hs), e) \o Messages(Tail(hs), e)

\* an inspection that reads error() without looking at the result first
Inspect_unchecked(r) == "error"

\* if (r) ... r->final_result_code ... else ... r.error(): the branch read
Inspect(r) == IF has_value(r) THEN "value" ELSE "error"

\* ASSERT_FALSE(res.has_value()); ... res.error(): a test that sees a success
\* stops before it reads the error
TestInspect(r) == IF has_value(r) THEN <<>> ELSE <<"error">>

\* a reporter with one message for every failure
HandlePipelineResult_generic(r) ==
    IF Inspect(r) = "value"
    THEN [accessed |-> <<"value">>,
          handled |-> <<>>,
          report |-> <<"\nPipeline Succeeded! Final Result Code: ",
                       decimal(r.val.final_result_code), "\n">>]
    ELSE LET hs == visit(Handlers, r.val)
         IN  [accessed |-> <<"error">>,
              handled |-> [i \in DOMAIN hs |-> [handler |-> hs[i], e |-> r.val]],
              report |-> <<"\nPipeline Failed! Error details: ",
                           "something went wrong\n">>]

HandlePipelineResult(r) ==
    IF Inspect(r) = "value"
    THEN [accessed |-> <<"value">>,
          handled |-> <<>>,
          report |-> <<"\nPipeline Succeeded! Final Result Code: ",
                       decimal(r.val.final_result_code), "\n">>]
    ELSE LET hs == visit(Handlers, r.val)
         IN  [accessed |-> <<"error">>,
              handled |-> [i \in DOMAIN hs |-> [handler |-> hs[i], e |-> r.val]],
              report |-> <<"\nPipeline Failed! Error details: ">>
                             \o Messages(hs, r.val)]

----------------------------------------------------------------------------
(* The driver and the unit tests *)

Init ==
    /\ pc \in {"Start", "Test"}
    /\ filename \in Paths
    /\ source \in Sources
    /\ res = Unset
    /\ calls = <<>>
    /\ ncalls = 0
    /\ \E ok \in (IF pc = "Start" THEN BOOLEAN ELSE {TRUE}) :
          sink = [ok |-> ok, lines |-> <<>>]
    /\ twin = [res |-> Unset, fns |-> <<>>]
    /\ open_handles = 0
    /\ accessed = <<>>
    /\ handled = <<>>
    /\ report = <<>>
    /\ runs = <<>>
    /\ adv = NoAdv

\* main.c: LoadConfig("...")
RunLoadConfig ==
    /\ pc = "Start"
    /\ LET a == LoadStep(source, filename, sink)
           b == LoadStep(source, filename, TwinSink(sink))
       IN  /\ res' = a.res
           /\ calls' = a.probe
           /\ sink' = a.sink
           /\ open_handles' = open_handles + a.handles
           /\ twin' = [res |-> b.res, fns |-> FnsOf(b.probe)]
    /\ pc' = "Loaded"
    /\ UNCHANGED <<runs, adv, filename, source, ncalls, accessed, handled, report>>

\* main.c: .and_then([](const Config& cfg){ return ValidateData(cfg); })
RunAndThenValidate ==
    /\ pc = "Loaded"
    /\ LET a == ChainStep(res, "ValidateData", sink)
           b == ChainStep(twin.res, "ValidateData", TwinSink(sink))
       IN  /\ res' = a.res
           /\ calls' = calls \o a.probe
           /\ sink' = a.sink
           /\ twin' = [res |-> b.res, fns |-> twin.fns \o FnsOf(b.probe)]
    /\ pc' = "Validated"
    /\ UNCHANGED <<runs, adv, filename, source, ncalls, open_handles, accessed, handled,
                   report>>

\* main.c: .and_then([](const ValidatedData& vd){ return ProcessData(vd); })
RunAndThenProcess ==
    /\ pc = "Validated"
    /\ LET a == ChainStep(res, "ProcessData", sink)
           b == ChainStep(twin.res, "ProcessData", TwinSink(sink))
       IN  /\ res' = a.res
           /\ calls' = calls \o a.probe
           /\ sink' = a.sink
           /\ twin' = [res |-> b.res, fns |-> twin.fns \o FnsOf(b.probe)]
    /\ pc' = "Done"
    /\ UNCHANGED <<runs, adv, filename, source, ncalls, open_handles, accessed, handled,
                   report>>

\* main.c: HandlePipelineResult(ok)
RunHandlePipelineResult ==
    /\ pc = "Done"
    /\ LET h == HandlePipelineResult(res)
       IN  /\ accessed' = h.accessed
           /\ handled' = h.handled
           /\ report' = h.report
    /\ pc' = "Reported"
    /\ UNCHANGED <<runs, adv, filename, source, res, calls, ncalls, sink, twin,
                   open_handles>>

\* Basic.cpp: a test creates (or does not create) a file and calls LoadConfig
TestLoadConfig ==
    /\ pc = "Test" /\ ncalls < MaxCalls
    /\ LET a == LoadStep(source, filename, sink)
       IN  /\ res' = a.res
           /\ calls' = calls \o a.probe
           /\ sink' = a.sink
           /\ open_handles' = open_handles + a.handles
           /\ accessed' = TestInspect(a.res)
    /\ ncalls' = ncalls + 1
    /\ UNCHANGED <<runs, adv, pc, filename, source, twin, handled, report>>

\* a test calls ValidateData on a Config it constructs from the text
TestValidateData ==
    /\ pc = "Test" /\ ncalls < MaxCalls
    /\ LET a == DirectStep("ValidateData", Config(source.content), sink)
       IN  /\ res' = a.res
           /\ calls' = calls \o a.probe
           /\ sink' = a.sink
           /\ accessed' = TestInspect(a.res)
    /\ ncalls' = ncalls + 1
    /\ UNCHANGED <<runs, adv, pc, filename, source, twin, open_handles, handled, report>>

\* Basic.cpp: ValidatedData very_short{"x"}; ProcessData(very_short)
TestProcessData ==
    /\ pc = "Test" /\ ncalls < MaxCalls
    /\ LET a == DirectStep("ProcessData", ValidatedData(source.content), sink)
       IN  /\ res' = a.res
           /\ calls' = calls \o a.probe
           /\ sink' = a.sink
           /\ accessed' = TestInspect(a.res)
    /\ ncalls' = ncalls + 1
    /\ UNCHANGED <<runs, adv, pc, filename, source, twin, open_handles, handled, report>>

Next ==
    \/ RunLoadConfig
    \/ RunAndThenValidate
    \/ RunAndThenProcess
    \/ RunHandlePipelineResult
    \/ TestLoadConfig
    \/ TestValidateData
    \/ TestProcessData

Spec == Init /\ [][Next]_vars

\* main.c alone: one scenario from its LoadConfig call to its report, over
\* a sink that works (the twin run has the other sink).  main is sequential
\* code without waits, so a statement that control has reached is executed.
DriverInit == Init /\ pc = "Start" /\ sink.ok

DriverNext ==
    \/ RunLoadConfig
    \/ RunAndThenValidate
    \/ RunAndThenProcess
    \/ RunHandlePipelineResult

DriverSpec == DriverInit /\ [][DriverNext]_vars /\ WF_vars(DriverNext)

----------------------------------------------------------------------------
(* Concurrent runs of the chain *)

\* the sources the concurrent runs read: main.c's scenarios and a directory
ConcSources ==
    {Missing, Directory,
     File(S(<<"v","a","l","i","d","_","d","a","t","a","_","c","o","n","t","e","n","t">>)),
     File(S(LitMalformed)),
     File(S(LitInvalidField)),
     File(S(<<"s","h","o","r","t">>))}

\* the path of the r-th thread
PathOf(r) ==
    <<"valid_config.txt", "non_existent_config.txt", "bad.cfg">>[((r - 1) % 3) + 1]

Thread(r, src) ==
    [pc |-> "Start", filename |-> PathOf(r), source |-> src, res |-> Unset,
     fns |-> <<>>]

\* stages that pass their result through one object shared by the threads:
\* a thread's and_then step works on the result of the first thread
ThreadStep_shared_result(rs, r, sk) ==
    LET me == rs[r]
        held == IF rs[1].res = Unset THEN me.res ELSE rs[1].res
    IN  CASE me.pc = "Start" ->
                LET a == LoadStep(me.source, me.filename, sk)
                IN  [run |-> [me EXCEPT !.pc = "Loaded", !.res = a.res,
                                        !.fns = FnsOf(a.probe)],
                     sink |-> a.sink, handles |-> a.handles]
          [] me.pc = "Loaded" ->
                LET a == ChainStep(held, "ValidateData", sk)
                IN  [run |-> [me EXCEPT !.pc = "Validated", !.res = a.res,
                                        !.fns = @ \o FnsOf(a.probe)],
                     sink |-> a.sink, handles |-> 0]
          [] me.pc = "Validated" ->
                LET a == ChainStep(held, "ProcessData", sk)
                IN  [run |-> [me EXCEPT !.pc = "Done", !.res = a.res,
                                        !.fns = @ \o FnsOf(a.probe)],
                     sink |-> a.sink, handles |-> 0]

\* the next stage step of thread r: the stages work on their arguments and
\* locals; std::cout / std::cerr and the handle table are the process's
ThreadStep(rs, r, sk) ==
    LET me == rs[r]
    IN  CASE me.pc = "Start" ->
                LET a == LoadStep(me.source, me.filename, sk)
                IN  [run |-> [me EXCEPT !.pc = "Loaded", !.res = a.res,
                                        !.fns = FnsOf(a.probe)],
                     sink |-> a.sink, handles |-> a.handles]
          [] me.pc = "Loaded" ->
                LET a == ChainStep(me.res, "ValidateData", sk)
                IN  [run |-> [me EXCEPT !.pc = "Validated", !.res = a.res,
                                        !.fns = @ \o FnsOf(a.probe)],
                     sink |-> a.sink, handles |-> 0]
          [] me.pc = "Validated" ->
                LET a == ChainStep(me.res, "ProcessData", sk)
                IN  [run |-> [me EXCEPT !.pc = "Done", !.res = a.res,
                                        !.fns = @ \o FnsOf(a.probe)],
                     sink |-> a.sink, handles |-> 0]

ConcInit ==
    /\ pc = "Conc"
    /\ filename = PathOf(1)
    /\ source = Missing
    /\ res = Unset
    /\ calls = <<>>
    /\ ncalls = 0
    /\ sink = [ok |-> TRUE, lines |-> <<>>]
    /\ twin = [res |-> Unset, fns |-> <<>>]
    /\ open_handles = 0
    /\ accessed = <<>>
    /\ handled = <<>>
    /\ report = <<>>
    /\ \E srcs \in [1..NRuns -> ConcSources] :
          runs = [r \in 1..NRuns |-> Thread(r, srcs[r])]
    /\ adv = NoAdv

\* some thread runs its next stage
ConcStep ==
    /\ pc = "Conc"
    /\ \E r \in DOMAIN runs :
          /\ runs[r].pc # "Done"
          /\ LET s == ThreadStep(runs, r, sink)
             IN  /\ runs' = [runs EXCEPT ![r] = s.run]
                 /\ sink' = s.sink
                 /\ open_handles' = open_handles + s.handles
    /\ UNCHANGED <<pc, filename, source, res, calls, ncalls, twin, accessed,
                   handled, report, adv>>

ConcNext == ConcStep

ConcSpec == ConcInit /\ [][ConcNext]_vars

----------------------------------------------------------------------------
(* The Advanced test suites *)

AdvPaths ==
    {Bytes(<<"e","r","r","_","c","a","s","e","s","_","d","e","m","o","/","n","o","t","_","e","x","i","s","t","s",".","j","s","o","n">>),
     Bytes(<<"e","r","r","_","c","a","s","e","s","_","d","e","m","o","/","P","E","R","M","_","D","E","N","I","E","D",".","j","s","o","n">>),
     Bytes(<<"e","r","r","_","c","a","s","e","s","_","d","e","m","o","/","i","o",".","j","s","o","n">>),
     Bytes(<<"e","r","r","_","c","a","s","e","s","_","d","e","m","o","/","b","a","d",".","j","s","o","n">>),
     Bytes(<<"P","E","R","M","_","D","E","N","I","E","D","/","o","k",".","j","s","o","n">>)}

\* n bytes 'x'
Filler(n) == [i \in 1..n |-> Ord("x")]

AdvContents ==
    {S(<<>>),
     Bytes(<<"w","h","a","t","e","v","e","r">>),
     Bytes(<<"T","R","I","G","G","E","R","_","I","O","_","E","R","R","O","R">>),
     Bytes(<<"M","A","L","F","O","R","M","E","D",":"," ","t","o","k","e","n"," ","h","e","r","e">>),
     Bytes(<<"H","E","L","L","O">>),
     Bytes(<<"O","O","M"," ","p","l","e","a","s","e">>),
     Bytes(<<"T","R","I","G","G","E","R","_","I","O","_","E","R","R","O","R"," ","M","A","L","F","O","R","M","E","D">>),
     S(<<0, 1, 2, 127, 128, 129, 255>>),
     S(Filler(MaxSize - 1)),
     S(Filler(MaxSize)),
     S(Filler(MaxSize + 1)),
     S(Filler(MaxSize - Len(LitMALFORMED)) \o LitMALFORMED),
     S(Filler(MaxSize + 1) \o LitMALFORMED)}

\* what a test does to have its path: make_file(name, content), or nothing
\* (the path is used as the file system has it)
Plans ==
    {[make |-> TRUE, content |-> c, entry |-> NoEntry] : c \in AdvContents}
        \cup {[make |-> FALSE, content |-> S(<<>>), entry |-> e] :
                 e \in {NoEntry, Locked, Dir}}

\* the alternatives of Error
AdvKinds ==
    {"FileNotFoundError", "PermissionError", "IOError", "BadFormatError",
     "MemoryError", "TooManyOpenFiles"}

\* the ParseConfig that LoadAndParse of a suite hands to and_then
ParseFn(suite) ==
    IF suite = "test.cpp" THEN "test_cpp::ParseConfig" ELSE "ParseConfig"

\* a test that puts ASSERT_FALSE(r.has_value()) before every visit
ErrorVisit_asserted(suite, r) ==
    IF has_value(r)
    THEN {[accessed |-> <<>>, visited |-> "none"]}
    ELSE {[accessed |-> <<"error">>, visited |-> r.val.kind]}

\* std::visit(Overloaded{...}, r.error()) of a test that expects a failure,
\* as the outcomes it can have.  part_003 and test.cpp put
\* ASSERT_FALSE(r.has_value()) before it; Advanced.cpp does not, and error()
\* of a success is undefined: any alternative may seem to be held, or the
\* test may crash.
ErrorVisit(suite, r) ==
    IF suite = "Advanced.cpp"
    THEN IF has_value(r)
         THEN {[accessed |-> <<"error">>, visited |-> k] :
                  k \in AdvKinds \cup {"crash"}}
         ELSE {[accessed |-> <<"error">>, visited |-> r.val.kind]}
    ELSE IF has_value(r)
         THEN {[accessed |-> <<>>, visited |-> "none"]}
         ELSE {[accessed |-> <<"error">>, visited |-> r.val.kind]}

AdvInit ==
    /\ pc = "Adv"
    /\ filename = PathOf(1)
    /\ source = Missing
    /\ res = Unset
    /\ calls = <<>>
    /\ ncalls = 0
    /\ sink = [ok |-> TRUE, lines |-> <<>>]
    /\ twin = [res |-> Unset, fns |-> <<>>]
    /\ open_handles = 0
    /\ accessed = <<>>
    /\ handled = <<>>
    /\ report = <<>>
    /\ runs = <<>>
    /\ \E s \in Suites, p \in AdvPaths, pl \in Plans :
          adv = [pc |-> "SetUp", suite |-> s, path |-> p, plan |-> pl,
                 entry |-> NoEntry, res |-> Unset, calls |-> <<>>,
                 accessed |-> <<>>, visited |-> "none"]

AdvFrame ==
    UNCHANGED <<pc, filename, source, res, calls, ncalls, sink, twin,
                open_handles, accessed, handled, report, runs>>

\* auto path = make_file(name, content);
AdvMakeFile ==
    /\ pc = "Adv" /\ adv.pc = "SetUp" /\ adv.plan.make
    /\ adv' = [adv EXCEPT !.entry = make_file(adv.suite, adv.plan.content),
                          !.pc = "Ready"]
    /\ AdvFrame

\* auto path = dir / name;
AdvUsePath ==
    /\ pc = "Adv" /\ adv.pc = "SetUp" /\ ~adv.plan.make
    /\ adv' = [adv EXCEPT !.entry = adv.plan.entry, !.pc = "Ready"]
    /\ AdvFrame

\* LoadAndParse: ReadAll(p)
AdvReadAll ==
    /\ pc = "Adv" /\ adv.pc = "Ready"
    /\ LET r == ReadAll(adv.path, adv.entry)
       IN  adv' = [adv EXCEPT !.res = r,
                              !.calls = <<Call("ReadAll", adv.path, adv.entry, r)>>,
                              !.pc = IF returned(r) THEN "Read" ELSE "Thrown"]
    /\ AdvFrame

\* LoadAndParse: .and_then(ParseConfig)
AdvAndThenParse ==
    /\ pc = "Adv" /\ adv.pc = "Read"
    /\ LET s == and_then(adv.res, ParseFn(adv.suite))
       IN  adv' = [adv EXCEPT !.res = s.out,
                              !.calls = @ \o s.probe,
                              !.pc = "Parsed"]
    /\ AdvFrame

\* a test that expects a failure visits r.error()
AdvVisitError ==
    /\ pc = "Adv" /\ adv.pc = "Parsed"
    /\ \E v \in ErrorVisit(adv.suite, adv.res) :
          adv' = [adv EXCEPT !.accessed = v.accessed,
                             !.visited = v.visited,
                             !.pc = "Checked"]
    /\ AdvFrame

\* HappyPath: ASSERT_TRUE(r.has_value()); EXPECT_EQ(*r, ...)
AdvReadValue ==
    /\ pc = "Adv" /\ adv.pc = "Parsed" /\ adv.suite = "part_003"
    /\ adv' = [adv EXCEPT !.accessed = IF has_value(adv.res) THEN <<"value">>
                                       ELSE <<>>,
                          !.pc = "Checked"]
    /\ AdvFrame

AdvNext ==
    \/ AdvMakeFile
    \/ AdvUsePath
    \/ AdvReadAll
    \/ AdvAndThenParse
    \/ AdvVisitError
    \/ AdvReadValue

AdvSpec == AdvInit /\ [][AdvNext]_vars

----------------------------------------------------------------------------
(* Properties *)

InRun == pc \in {"Loaded", "Validated", "Done"}

Invoked(fn) == \E i \in DOMAIN calls : calls[i].fn = fn
Failed(fn) == \E i \in DOMAIN calls : calls[i].fn = fn /\ ~calls[i].ret.has_value

\* C1: in a run of the chain, once LoadConfig has returned a failure neither
\* ValidateData nor ProcessData is invoked, and once ValidateData has
\* returned a failure ProcessData is not invoked.
C1_ShortCircuit ==
    InRun =>
        /\ Failed("LoadConfig") =>
              ~Invoked("ValidateData") /\ ~Invoked("ProcessData")
        /\ Failed("ValidateData") => ~Invoked("ProcessData")

\* a finished run in which ValidateData was invoked and failed
C1_Witness ==
    /\ pc = "Done"
    /\ Failed("ValidateData")
    /\ Len(calls) = 2

\* C2: the failure a run holds is the failure value the failing stage
\* returned, kind and fields, and that stage is the last one invoked.
C2_FailureUnchanged ==
    (InRun /\ ~has_value(res)) =>
        /\ calls # <<>>
        /\ ~has_value(calls[Len(calls)].ret)
        /\ res.val = calls[Len(calls)].ret.val
        /\ \A i \in 1..(Len(calls) - 1) : has_value(calls[i].ret)

\* a finished run whose LoadConfig failure went through both and_then steps
C2_Witness ==
    /\ pc = "Done"
    /\ ~has_value(res)
    /\ Len(calls) = 1
    /\ res.val.kind = "ConfigParseError"

\* lit occurs in s at some position
Contains(s, lit) ==
    \E i \in 1..(Len(s.chars) - Len(lit) + 1) :
        SubSeq(s.chars, i, i + Len(lit) - 1) = lit

IsCall(i, fn) == i \in DOMAIN calls /\ calls[i].fn = fn

\* C3: LoadConfig on a path whose source cannot be opened returns the
\* failure ConfigReadError whose filename is that path.
C3_ReadError ==
    \A i \in DOMAIN calls :
        (IsCall(i, "LoadConfig") /\ ~calls[i].src.opens) =>
            calls[i].ret =
                [has_value |-> FALSE,
                 val |-> [kind |-> "ConfigReadError", filename |-> calls[i].arg]]

\* LoadConfig has been called on the missing non_existent_config.txt
C3_Witness ==
    \E i \in DOMAIN calls :
        /\ IsCall(i, "LoadConfig")
        /\ ~calls[i].src.opens
        /\ calls[i].arg = "non_existent_config.txt"
        /\ ~calls[i].ret.has_value

\* C4: LoadConfig on a source that opens and whose content is empty or has
\* "malformed" somewhere returns ConfigParseError{"malformed", 1}.
C4_ParseError ==
    \A i \in DOMAIN calls :
        (/\ IsCall(i, "LoadConfig")
         /\ calls[i].src.opens
         /\ \/ calls[i].src.content = [chars |-> <<>>, pad |-> 0]
            \/ Contains(calls[i].src.content, LitMalformed)) =>
            calls[i].ret =
                [has_value |-> FALSE,
                 val |-> [kind |-> "ConfigParseError",
                          line_content |-> [chars |-> LitMalformed, pad |-> 0],
                          line_number |-> 1]]

\* LoadConfig has rejected a file with "malformed" on its second line
C4_Witness ==
    \E i \in DOMAIN calls :
        /\ IsCall(i, "LoadConfig")
        /\ calls[i].src.opens
        /\ calls[i].src.content.chars = <<"x", "\n">> \o LitMalformed
        /\ ~calls[i].ret.has_value

SourceLoads ==
    /\ source.opens
    /\ source.readable
    /\ source.content # [chars |-> <<>>, pad |-> 0]
    /\ ~Contains(source.content, LitMalformed)

\* C5: ValidateData on a Config whose data has "invalid_field" somewhere
\* returns ValidationError{"invalid_field", "contains disallowed value"}, and
\* a finished run of the chain holds a ValidationError exactly when the
\* source loads and its content has "invalid_field".
C5_ValidationError ==
    /\ \A i \in DOMAIN calls :
          (IsCall(i, "ValidateData")
              /\ Contains(calls[i].arg.data, LitInvalidField)) =>
              calls[i].ret =
                  [has_value |-> FALSE,
                   val |-> [kind |-> "ValidationError",
                            field_name |-> [chars |-> LitInvalidField, pad |-> 0],
                            invalid_value |-> "contains disallowed value"]]
    /\ pc = "Done" =>
          ((~has_value(res) /\ res.val.kind = "ValidationError")
              <=> (SourceLoads /\ Contains(source.content, LitInvalidField)))

\* a finished run that ended in ValidationError on "invalid_field" that is
\* not at the start of the content
C5_Witness ==
    /\ pc = "Done"
    /\ ~has_value(res)
    /\ res.val.kind = "ValidationError"
    /\ source.content.chars # <<>>
    /\ source.content.chars[1] = "x"

IsLength(s, n) == s.pad = 0 /\ Len(s.chars) = n

\* C6: ProcessData on processed_data shorter than 10 returns
\* ProcessingError{"Data Processing", "Input data too short for task"}; on
\* length 10 it returns a success.
C6_ProcessingError ==
    \A i \in DOMAIN calls :
        IsCall(i, "ProcessData") =>
            /\ (\E n \in 0..9 : IsLength(calls[i].arg.processed_data, n)) =>
                  calls[i].ret =
                      [has_value |-> FALSE,
                       val |-> [kind |-> "ProcessingError",
                                task_name |-> "Data Processing",
                                details |-> "Input data too short for task"]]
            /\ IsLength(calls[i].arg.processed_data, 10) =>
                  calls[i].ret.has_value

\* ProcessData has rejected a ValidatedData of length 9
C6_Witness ==
    \E i \in DOMAIN calls :
        /\ IsCall(i, "ProcessData")
        /\ IsLength(calls[i].arg.processed_data, 9)
        /\ ~calls[i].ret.has_value

\* C7: ValidateData on a Config whose data has no "invalid_field" returns a
\* success whose processed_data is "Validated: " followed by the data, 11
\* longer than the data, whatever was called before it.
C7_ValidatedPrefix ==
    \A i \in DOMAIN calls :
        (IsCall(i, "ValidateData")
            /\ ~Contains(calls[i].arg.data, LitInvalidField)) =>
            LET d == calls[i].arg.data
                out == calls[i].ret.val.processed_data
            IN  /\ calls[i].ret.has_value
                /\ DOMAIN calls[i].ret.val = {"processed_data"}
                /\ out.chars = LitValidated \o d.chars
                /\ out.pad = d.pad
                /\ Len(out.chars) = Len(d.chars) + 11

\* a test has called ProcessData and then ValidateData on a non-empty Config,
\* and ValidateData succeeded
C7_Witness ==
    /\ pc = "Test"
    /\ Len(calls) = 2
    /\ IsCall(1, "ProcessData") /\ IsCall(2, "ValidateData")
    /\ calls[2].arg.data.chars # <<>>
    /\ calls[2].ret.has_value

\* C8: ProcessData on processed_data of length n >= 10 returns a success
\* whose final_result_code is n.
C8_ResultCode ==
    \A i \in DOMAIN calls :
        (IsCall(i, "ProcessData")
            /\ ~(\E n \in 0..9 : IsLength(calls[i].arg.processed_data, n))) =>
            LET d == calls[i].arg.processed_data
                code == calls[i].ret.val.final_result_code
            IN  /\ calls[i].ret.has_value
                /\ code >= 0
                /\ code \div BlockLen = d.pad
                /\ code % BlockLen = Len(d.chars)

ValidDataContent ==
    <<"v","a","l","i","d","_","d","a","t","a","_","c","o","n","t","e","n","t">>

\* C9 as stated: the content "valid_data_content" has 19 characters and its
\* run ends in the success Result{30}.
C9_Original ==
    (pc = "Done" /\ source = File(S(ValidDataContent))) =>
        /\ Len(source.content.chars) = 19
        /\ res = [has_value |-> TRUE, val |-> [final_result_code |-> 30]]

\* C9: the content "valid_data_content" has 18 characters; its run invokes
\* the three stages, each succeeds, and it ends in the success Result{29}.
C9_Amended ==
    (pc = "Done" /\ source = File(S(ValidDataContent))) =>
        /\ Len(source.content.chars) = 18
        /\ Len(calls) = 3
        /\ \A i \in DOMAIN calls : calls[i].ret.has_value
        /\ res = [has_value |-> TRUE, val |-> [final_result_code |-> 29]]

\* the run on "valid_data_content" has finished
C9_Witness ==
    /\ pc = "Done"
    /\ source = File(S(ValidDataContent))
    /\ has_value(res)

\* C10: LoadConfig on a regular file whose content is not empty and has no
\* "malformed" returns the success Config whose data is that content.
C10_ConfigIsContent ==
    \A i \in DOMAIN calls :
        (/\ IsCall(i, "LoadConfig")
         /\ calls[i].src.opens /\ calls[i].src.readable
         /\ calls[i].src.content # [chars |-> <<>>, pad |-> 0]
         /\ ~Contains(calls[i].src.content, LitMalformed)) =>
            calls[i].ret =
                [has_value |-> TRUE, val |-> [data |-> calls[i].src.content]]

\* LoadConfig has loaded a file of several lines
C10_Witness ==
    \E i \in DOMAIN calls :
        /\ IsCall(i, "LoadConfig")
        /\ calls[i].ret.has_value
        /\ \E k \in DOMAIN calls[i].src.content.chars :
              /\ calls[i].src.content.chars[k] = "\n"
              /\ 1 < k /\ k < Len(calls[i].src.content.chars)

ShortContent == <<"s","h","o","r","t">>

\* C12: the run on a file whose content is "short" loads and validates,
\* ProcessData then returns the ProcessingError for too short data, and the
\* driver reports a Data Processing Error.
C12_Scenario5 ==
    (pc \in {"Done", "Reported"} /\ source = File(S(ShortContent))) =>
        /\ Len(calls) = 3
        /\ calls[1].ret.has_value /\ calls[2].ret.has_value
        /\ res = [has_value |-> FALSE,
                  val |-> [kind |-> "ProcessingError",
                           task_name |-> "Data Processing",
                           details |-> "Input data too short for task"]]
        /\ pc = "Reported" =>
              /\ Len(report) >= 2
              /\ report[2] = "Data Processing Error: Task '"

\* C13: LoadConfig on a source that is unavailable, because it does not
\* open or because it opens and cannot be read, returns ConfigReadError
\* with the path.
C13_UnavailableIsReadError ==
    \A i \in DOMAIN calls :
        (IsCall(i, "LoadConfig")
            /\ (~calls[i].src.opens \/ ~calls[i].src.readable)) =>
            calls[i].ret =
                [has_value |-> FALSE,
                 val |-> [kind |-> "ConfigReadError", filename |-> calls[i].arg]]

Kinds ==
    {"ConfigReadError", "ConfigParseError", "ValidationError", "ProcessingError"}

FieldsOf(kind) ==
    CASE kind = "ConfigReadError" -> {"kind", "filename"}
      [] kind = "ConfigParseError" -> {"kind", "line_content", "line_number"}
      [] kind = "ValidationError" -> {"kind", "field_name", "invalid_value"}
      [] kind = "ProcessingError" -> {"kind", "task_name", "details"}

Finished == pc = "Reported"

\* C14: for a failed final result the driver's std::visit invokes one
\* handler, the one of the kind held, on the failure record with exactly
\* the fields of that kind; for a success it invokes none.  The same visitor
\* selects the one handler of its kind for every failure a stage returns.
C14_Dispatch ==
    /\ Finished =>
          IF has_value(res)
          THEN handled = <<>>
          ELSE /\ res.val.kind \in Kinds
               /\ DOMAIN res.val = FieldsOf(res.val.kind)
               /\ handled = <<[handler |-> res.val.kind, e |-> res.val]>>
    /\ \A i \in DOMAIN calls :
          ~calls[i].ret.has_value =>
              visit(Handlers, calls[i].ret.val) = <<calls[i].ret.val.kind>>

\* the driver has dispatched a ConfigReadError
C14_Witness ==
    /\ Finished
    /\ ~has_value(res)
    /\ res.val.kind = "ConfigReadError"
    /\ Len(handled) = 1

DigitValue(c) ==
    CASE c = "0" -> 0 [] c = "1" -> 1 [] c = "2" -> 2 [] c = "3" -> 3
      [] c = "4" -> 4 [] c = "5" -> 5 [] c = "6" -> 6 [] c = "7" -> 7
      [] c = "8" -> 8 [] c = "9" -> 9

RECURSIVE ReadDigits(_, _, _)
ReadDigits(cs, acc, sign) ==
    IF cs = <<>> THEN acc
    ELSE ReadDigits(Tail(cs), acc * 10 + sign * DigitValue(Head(cs)), sign)

\* the int a decimal numeral denotes
ReadDecimal(s) ==
    IF s.chars # <<>> /\ Head(s.chars) = "-"
    THEN ReadDigits(Tail(s.chars), 0, -1)
    ELSE ReadDigits(s.chars, 0, 1)

IsNumeral(s, n) ==
    /\ s.pad = 0
    /\ s.chars # <<>>
    /\ s.chars # <<"-">>
    /\ \A i \in DOMAIN s.chars :
          s.chars[i] \in {"0","1","2","3","4","5","6","7","8","9"}
              \/ (i = 1 /\ s.chars[i] = "-")
    /\ ReadDecimal(s) = n

ReportHead(kind) ==
    CASE kind = "ConfigReadError" ->
            "Configuration Read Error: Could not open file '"
      [] kind = "ConfigParseError" ->
            "Configuration Parse Error: Malformed content at line "
      [] kind = "ValidationError" -> "Data Validation Error: Field '"
      [] kind = "ProcessingError" -> "Data Processing Error: Task '"

\* C15: the reporter writes "Pipeline Succeeded! Final Result Code: <n>"
\* with n the result code for a success, and for a failure the message of
\* its kind with its fields; the message of one kind is the message of no
\* other kind.
C15_Report ==
    Finished =>
        IF has_value(res)
        THEN /\ Len(report) = 3
             /\ report[1] = "\nPipeline Succeeded! Final Result Code: "
             /\ IsNumeral(report[2], res.val.final_result_code)
             /\ report[3] = "\n"
        ELSE LET e == res.val
             IN  /\ Len(report) >= 2
                 /\ report[1] = "\nPipeline Failed! Error details: "
                 /\ report[2] = ReportHead(e.kind)
                 /\ \A k \in Kinds \ {e.kind} : report[2] # ReportHead(k)
                 /\ CASE e.kind = "ConfigReadError" ->
                            /\ Len(report) = 4
                            /\ report[3] = e.filename
                            /\ report[4] = "'\n"
                      [] e.kind = "ConfigParseError" ->
                            /\ Len(report) = 6
                            /\ IsNumeral(report[3], e.line_number)
                            /\ report[4] = " (Context: '"
                            /\ report[5] = e.line_content
                            /\ report[6] = "')\n"
                      [] e.kind = "ValidationError" ->
                            /\ Len(report) = 6
                            /\ report[3] = e.field_name
                            /\ report[4] = "' has invalid value '"
                            /\ report[5] = e.invalid_value
                            /\ report[6] = "'\n"
                      [] e.kind = "ProcessingError" ->
                            /\ Len(report) = 6
                            /\ report[3] = e.task_name
                            /\ report[4] = "' failed. Details: "
                            /\ report[5] = e.details
                            /\ report[6] = "\n"

\* the driver has reported a ConfigParseError
C15_Witness ==
    /\ Finished
    /\ ~has_value(res)
    /\ res.val.kind = "ConfigParseError"
    /\ Len(report) = 6

PayloadOf(fn) ==
    CASE fn = "LoadConfig" -> {"data"}
      [] fn = "ValidateData" -> {"processed_data"}
      [] fn = "ProcessData" -> {"final_result_code"}

\* r is a success holding a payload with the given fields, or a failure
\* holding the record of one of the four kinds
OneBranch(r, payload) ==
    /\ DOMAIN r = {"has_value", "val"}
    /\ r.has_value \in BOOLEAN
    /\ IF r.has_value
       THEN DOMAIN r.val = payload
       ELSE /\ "kind" \in DOMAIN r.val
            /\ r.val.kind \in Kinds
            /\ DOMAIN r.val = FieldsOf(r.val.kind)

ResultsOneBranch ==
    /\ \A i \in DOMAIN calls : OneBranch(calls[i].ret, PayloadOf(calls[i].fn))
    /\ pc = "Loaded" => OneBranch(res, PayloadOf("LoadConfig"))
    /\ pc = "Validated" => OneBranch(res, PayloadOf("ValidateData"))
    /\ pc \in {"Done", "Reported"} => OneBranch(res, PayloadOf("ProcessData"))
    /\ (pc = "Test" /\ calls # <<>>) =>
          OneBranch(res, PayloadOf(calls[Len(calls)].fn))

\* C16: every result a stage or the chain returns is a success holding the
\* payload of its type or a failure holding one of the four failure
\* records, and the driver's inspection of the final result leaves it as
\* it is.
C16_ExactlyOneBranch ==
    /\ []ResultsOneBranch
    /\ [][pc = "Done" => res' = res]_vars

\* the driver has inspected a failed final result
C16_Witness ==
    /\ Finished
    /\ ~has_value(res)
    /\ accessed = <<"error">>

\* C17: the driver and the tests read the value of a result only when it is
\* a success and its error only when it is a failure, and the driver reads
\* one of the two.
C17_AccessPopulatedBranch ==
    /\ \A i \in DOMAIN accessed :
          /\ accessed[i] = "value" => has_value(res)
          /\ accessed[i] = "error" => ~has_value(res)
    /\ Finished => Len(accessed) = 1

\* the driver has read the value of a successful final result
C17_Witness ==
    /\ Finished
    /\ has_value(res)
    /\ accessed = <<"value">>

\* the state of a run in the terms of the state machine
RunState(p, r) ==
    IF p = "Start" THEN [st |-> "Start", kind |-> "-"]
    ELSE IF ~r.has_value THEN [st |-> "Failed", kind |-> r.val.kind]
    ELSE IF p = "Loaded" THEN [st |-> "Loaded", kind |-> "-"]
    ELSE IF p = "Validated" THEN [st |-> "Validated", kind |-> "-"]
    ELSE [st |-> "Processed", kind |-> "-"]

Transition(s, t) ==
    \/ /\ s.st = "Start"
       /\ \/ t.st = "Loaded"
          \/ t.st = "Failed" /\ t.kind \in {"ConfigReadError", "ConfigParseError"}
    \/ /\ s.st = "Loaded"
       /\ \/ t.st = "Validated"
          \/ t.st = "Failed" /\ t.kind = "ValidationError"
    \/ /\ s.st = "Validated"
       /\ \/ t.st = "Processed"
          \/ t.st = "Failed" /\ t.kind = "ProcessingError"

NoStageTwice ==
    \A i, j \in DOMAIN calls : calls[i].fn = calls[j].fn => i = j

\* C18: a run of the chain moves Start -> Loaded -> Validated -> Processed
\* or from one of the first three to Failed(kind) of the stage at that
\* boundary; Processed and Failed(kind) are never left, and no stage is
\* invoked twice.
C18_StateMachine ==
    /\ [](pc # "Test" => NoStageTwice)
    /\ [][pc # "Test" =>
            \/ RunState(pc', res') = RunState(pc, res)
               /\ RunState(pc, res).st \in {"Failed", "Processed"}
            \/ Transition(RunState(pc, res), RunState(pc', res'))]_vars

\* a run has left Loaded for Failed(ValidationError) and has ended there
C18_Witness ==
    /\ Finished
    /\ Len(calls) = 2
    /\ RunState(pc, res) = [st |-> "Failed", kind |-> "ValidationError"]

\* C19: no byte-source handle is open once LoadConfig has returned, by
\* whichever return it left.
C19_HandleReleased == open_handles = 0

\* a run has ended whose LoadConfig opened the source and left by the parse
\* failure
C19_Witness ==
    /\ pc = "Done"
    /\ Len(calls) = 1
    /\ calls[1].src.opens
    /\ ~calls[1].ret.has_value

\* C20: a run and the run on the same input over a sink in the other state
\* hold the same result and have invoked the same stages.
C20_SinkIndependence ==
    pc \in {"Loaded", "Validated", "Done", "Reported"} =>
        /\ twin.res = res
        /\ twin.fns = FnsOf(calls)

\* a run of three stages has ended over a sink that dropped every line
C20_Witness ==
    /\ pc = "Done"
    /\ ~sink.ok
    /\ sink.lines = <<>>
    /\ Len(calls) = 3

\* the failure kinds that belong to a stage
KindsOf(fn) ==
    CASE fn = "LoadConfig" -> {"ConfigReadError", "ConfigParseError"}
      [] fn = "ValidateData" -> {"ValidationError"}
      [] fn = "ProcessData" -> {"ProcessingError"}

\* C22: every failure a stage returns is of a kind of that stage
\* (ConfigReadError or ConfigParseError from LoadConfig, ValidationError from
\* ValidateData, ProcessingError from ProcessData), no other kind exists, and
\* the failure a run ends with is of a kind of the last stage invoked.
C22_Taxonomy ==
    /\ \A i \in DOMAIN calls :
          ~calls[i].ret.has_value =>
              /\ calls[i].ret.val.kind \in KindsOf(calls[i].fn)
              /\ \A fn \in {"LoadConfig", "ValidateData", "ProcessData"} :
                    calls[i].ret.val.kind \in KindsOf(fn) => fn = calls[i].fn
    /\ (pc \in {"Loaded", "Validated", "Done", "Reported"} /\ ~has_value(res)) =>
          res.val.kind \in KindsOf(calls[Len(calls)].fn)

\* the tests have seen LoadConfig fail and ProcessData fail
C22_Witness ==
    /\ pc = "Test"
    /\ Len(calls) = 2
    /\ IsCall(1, "LoadConfig") /\ ~calls[1].ret.has_value
    /\ IsCall(2, "ProcessData") /\ ~calls[2].ret.has_value

\* the rejection conditions of the three stages, read off the source
Rejects(fn) ==
    CASE fn = "LoadConfig" -> ~SourceLoads
      [] fn = "ValidateData" -> Contains(source.content, LitInvalidField)
      [] fn = "ProcessData" ->
            source.content.pad = 0
                /\ Len(LitValidated) + Len(source.content.chars) < MinLength

\* C28: a run on a content with both "malformed" and "invalid_field" ends
\* with ConfigParseError{"malformed", 1} after LoadConfig alone; in general a
\* run fails with a kind of the earliest stage whose rejection condition
\* holds, having invoked the stages up to that one, and succeeds when none
\* holds.
C28_EarliestStage ==
    pc \in {"Done", "Reported"} =>
        /\ ( /\ source.readable
             /\ Contains(source.content, LitMalformed)
             /\ Contains(source.content, LitInvalidField) ) =>
                /\ res = [has_value |-> FALSE,
                          val |-> [kind |-> "ConfigParseError",
                                   line_content |-> S(LitMalformed),
                                   line_number |-> 1]]
                /\ FnsOf(calls) = <<"LoadConfig">>
        /\ LET order == <<"LoadConfig", "ValidateData", "ProcessData">>
               hit == {i \in 1..3 : Rejects(order[i])}
           IN  IF hit = {}
               THEN has_value(res) /\ FnsOf(calls) = order
               ELSE LET first == CHOOSE i \in hit : \A j \in hit : i <= j
                    IN  /\ ~has_value(res)
                        /\ res.val.kind \in KindsOf(order[first])
                        /\ FnsOf(calls) = SubSeq(order, 1, first)

\* a run has ended on a content that has "malformed" and "invalid_field"
C28_Witness ==
    /\ pc = "Done"
    /\ source.readable
    /\ Contains(source.content, LitMalformed)
    /\ Contains(source.content, LitInvalidField)
    /\ Len(calls) = 1

\* the stage of a header copy under the name and_then knows it by
StageOf(copy, fn) ==
    CASE copy = "part_000" /\ fn = "ValidateData" -> "part_000::ValidateData"
      [] copy = "part_000" /\ fn = "ProcessData" -> "part_000::ProcessData"
      [] copy = "part_001" /\ fn = "ValidateData" -> "part_001::ValidateData"
      [] copy = "part_001" /\ fn = "ProcessData" -> "part_001::ProcessData"

\* the chain of main.c built from the stages of a header copy
ChainOf(copy, src, fname) ==
    LET r1 == LoadConfigOf(copy, src, fname)
        r2 == and_then(r1, StageOf(copy, "ValidateData")).out
    IN  and_then(r2, StageOf(copy, "ProcessData")).out

\* C30: LoadConfig, ValidateData and ProcessData of each header copy return,
\* on every source and on every argument a stage was called with, what the
\* stage of Config_Processing_Utils.cpp returned, and the chain built from a
\* copy ends in the final result of the run.
C30_CopiesEquivalent ==
    \A copy \in Copies :
        /\ LoadConfigOf(copy, source, filename) = LoadConfig(source, filename)
        /\ \A i \in DOMAIN calls :
              IF calls[i].fn = "LoadConfig"
              THEN LoadConfigOf(copy, calls[i].src, calls[i].arg) = calls[i].ret
              ELSE Stage(StageOf(copy, calls[i].fn), calls[i].arg) = calls[i].ret
        /\ pc \in {"Done", "Reported"} => ChainOf(copy, source, filename) = res

\* a run has ended in a success, every stage invoked
C30_Witness ==
    /\ pc = "Done"
    /\ has_value(res)
    /\ Len(calls) = 3

\* the chain has ended, in Processed or in Failed(kind)
Terminated ==
    /\ pc \in {"Done", "Reported"}
    /\ RunState(pc, res).st \in {"Processed", "Failed"}

\* C29: every run of the driver reaches Processed or Failed(kind) and the
\* end of the chain, with at most three stage invocations and no stage
\* invoked twice on the way.
C29_Terminates ==
    /\ <>Terminated
    /\ [](Len(calls) <= 3 /\ NoStageTwice)

\* a run on a content of gigabytes has ended after three stage invocations
C29_Witness ==
    /\ pc = "Done"
    /\ source.content.pad > 0
    /\ Len(calls) = 3

\* the run of the chain on src and fname with nothing beside it
Alone(src, fname) ==
    LET a == LoadStep(src, fname, [ok |-> TRUE, lines |-> <<>>])
        b == ChainStep(a.res, "ValidateData", a.sink)
        c == ChainStep(b.res, "ProcessData", b.sink)
    IN  [res |-> c.res, fns |-> FnsOf(a.probe \o b.probe \o c.probe)]

\* C21: whatever the interleaving of the stage steps of the concurrent runs,
\* a run that has ended holds the result, and has invoked the stages, of the
\* same run executed alone.
C21_RunsIndependent ==
    \A r \in DOMAIN runs :
        runs[r].pc = "Done" =>
            /\ runs[r].res = Alone(runs[r].source, runs[r].filename).res
            /\ runs[r].fns = Alone(runs[r].source, runs[r].filename).fns

\* two runs with different results have ended, the second having loaded
\* before the first and the first before the second went on
C21_Witness ==
    /\ pc = "Conc"
    /\ runs[1].pc = "Done" /\ runs[2].pc = "Done"
    /\ runs[1].res # runs[2].res
    /\ Len(sink.lines) >= 3
    /\ Len(sink.lines[1]) = 3 /\ sink.lines[1][3] = runs[2].filename
    /\ Len(sink.lines[2]) = 3 /\ sink.lines[2][3] = runs[1].filename

\* lit occurs in the file name of path p: at a place with no '/' after it
NameHas(p, lit) ==
    \E i \in 1..(Len(p.chars) - Len(lit) + 1) :
        /\ SubSeq(p.chars, i, i + Len(lit) - 1) = lit
        /\ \A j \in i..Len(p.chars) : p.chars[j] # 47

TriggerText == Bytes(<<"T","R","I","G","G","E","R","_","I","O","_","E","R","R","O","R">>)
MalformedText == Bytes(<<"M","A","L","F","O","R","M","E","D">>)
DeniedText == Bytes(<<"P","E","R","M","_","D","E","N","I","E","D">>)
ReadText == Bytes(<<"r","e","a","d">>)
OpenText == Bytes(<<"o","p","e","n">>)

AdvCalled == pc = "Adv" /\ adv.pc \in {"Read", "Parsed", "Checked"}

\* C24: ReadAll returns FileNotFoundError{path} for a path that does not
\* exist; else PermissionError{path} for a file name with "PERM_DENIED";
\* else IOError{path, "open"} for a file that cannot be opened; else an
\* IOError with the path and an op that has "read" for a content with
\* "TRIGGER_IO_ERROR".  When ReadAll fails, LoadAndParse returns that failure
\* and ParseConfig is not invoked.
C24_ReadAllOrder ==
    AdvCalled =>
        LET c == adv.calls[1]
            p == c.arg
            ent == c.src
            denied == NameHas(p, DeniedText.chars)
        IN  /\ ~ent.exists =>
                  c.ret = [has_value |-> FALSE,
                           val |-> [kind |-> "FileNotFoundError", path |-> p]]
            /\ (ent.exists /\ denied) =>
                  c.ret = [has_value |-> FALSE,
                           val |-> [kind |-> "PermissionError", path |-> p]]
            /\ (ent.exists /\ ~denied /\ ~ent.opens) =>
                  c.ret = [has_value |-> FALSE,
                           val |-> [kind |-> "IOError", path |-> p,
                                    op |-> OpenText]]
            /\ ( /\ ent.exists /\ ~denied /\ ent.opens /\ ent.reads
                 /\ Contains(ent.content, TriggerText.chars) ) =>
                  /\ ~c.ret.has_value
                  /\ c.ret.val.kind = "IOError"
                  /\ c.ret.val.path = p
                  /\ Contains(c.ret.val.op, ReadText.chars)
            /\ (~c.ret.has_value /\ adv.pc \in {"Parsed", "Checked"}) =>
                  /\ adv.res = c.ret
                  /\ Len(adv.calls) = 1

\* LoadAndParse has returned on a file with "TRIGGER_IO_ERROR" and
\* "MALFORMED" in it
C24_Witness ==
    /\ pc = "Adv" /\ adv.pc = "Parsed"
    /\ Contains(adv.entry.content, TriggerText.chars)
    /\ Contains(adv.entry.content, MalformedText.chars)
    /\ ~adv.res.has_value
    /\ adv.res.val.kind = "IOError"

IsParseCall(i) ==
    /\ pc = "Adv"
    /\ i \in DOMAIN adv.calls
    /\ adv.calls[i].fn = "ParseConfig"

\* C25: ParseConfig (the one that returns a string) returns
\* BadFormatError{"MALFORMED token", 1} for a content with "MALFORMED",
\* whatever its size; MemoryError{"simulated out-of-memory"} for a content
\* without it of more than 1024 bytes; a success for one of 1024 bytes.
C25_ParseErrors ==
    pc = "Adv" =>
        \A i \in DOMAIN adv.calls :
            IsParseCall(i) =>
                LET c == adv.calls[i]
                    bad == Contains(c.arg, MalformedText.chars)
                    n == Len(c.arg.chars)
                IN  /\ bad => c.ret = [has_value |-> FALSE,
                                       val |-> [kind |-> "BadFormatError",
                                                reason |-> "MALFORMED token",
                                                line |-> 1]]
                    /\ (~bad /\ n > 1024) =>
                           c.ret = [has_value |-> FALSE,
                                    val |-> [kind |-> "MemoryError",
                                             reason |-> "simulated out-of-memory"]]
                    /\ (~bad /\ n = 1024) => c.ret.has_value

\* ParseConfig has been called on more than 1024 bytes with "MALFORMED"
C25_Witness ==
    /\ pc = "Adv" /\ adv.pc = "Parsed"
    /\ IsParseCall(2)
    /\ Len(adv.calls[2].arg.chars) > 1024
    /\ Contains(adv.calls[2].arg, MalformedText.chars)

\* C26: on a content without "TRIGGER_IO_ERROR" and "MALFORMED" of at most
\* 1024 bytes the pipeline returns a success holding a string of the same
\* length, each byte the input byte less one, a NUL byte unchanged; "HELLO"
\* gives "GDKKN".
C26_ByteMinusOne ==
    (pc = "Adv" /\ adv.pc \in {"Parsed", "Checked"} /\ adv.suite # "test.cpp") =>
        LET in == adv.entry.content
        IN  ( /\ adv.entry.reads
              /\ ~NameHas(adv.path, DeniedText.chars)
              /\ ~Contains(in, TriggerText.chars)
              /\ ~Contains(in, MalformedText.chars)
              /\ Len(in.chars) <= 1024 ) =>
                /\ adv.res.has_value
                /\ Len(adv.res.val.chars) = Len(in.chars)
                /\ adv.res.val.pad = 0
                /\ \A i \in DOMAIN in.chars :
                      adv.res.val.chars[i] =
                          IF in.chars[i] = 0 THEN 0 ELSE in.chars[i] - 1
                /\ in = Bytes(<<"H","E","L","L","O">>) =>
                      adv.res.val = Bytes(<<"G","D","K","K","N">>)

\* the pipeline has returned on a content with the bytes 0, 128 and 255
C26_Witness ==
    /\ pc = "Adv" /\ adv.pc = "Parsed"
    /\ adv.suite = "part_003"
    /\ adv.entry.content = S(<<0, 1, 2, 127, 128, 129, 255>>)
    /\ adv.res.has_value

\* C27: in Advanced.cpp, LoadAndParse on the file made by
\* make_file("io.json", "TRIGGER_IO_ERROR") fails with an IOError of that
\* path whose op has "read", on the file made by
\* make_file("bad.json", "MALFORMED: token here") it fails with
\* BadFormatError{"MALFORMED token", 1}, and the result is a failure when
\* the test visits r.error().
C27_AdvancedCppTests ==
    ( /\ pc = "Adv" /\ adv.pc = "Checked"
      /\ adv.suite = "Advanced.cpp" /\ adv.plan.make ) =>
        /\ ( /\ adv.path = Bytes(<<"e","r","r","_","c","a","s","e","s","_","d","e","m","o","/","i","o",".","j","s","o","n">>)
             /\ adv.plan.content = TriggerText ) =>
                /\ ~adv.res.has_value
                /\ adv.res.val.kind = "IOError"
                /\ adv.res.val.path = adv.path
                /\ Contains(adv.res.val.op, ReadText.chars)
        /\ ( /\ adv.path = Bytes(<<"e","r","r","_","c","a","s","e","s","_","d","e","m","o","/","b","a","d",".","j","s","o","n">>)
             /\ adv.plan.content = Bytes(<<"M","A","L","F","O","R","M","E","D",":"," ","t","o","k","e","n"," ","h","e","r","e">>) ) =>
                adv.res = [has_value |-> FALSE,
                           val |-> [kind |-> "BadFormatError",
                                    reason |-> "MALFORMED token",
                                    line |-> 1]]
        /\ (adv.accessed = <<"error">>) => ~adv.res.has_value

TypeOK ==
    /\ pc \in {"Start", "Loaded", "Validated", "Done", "Reported", "Test", "Conc", "Adv"}
    /\ ncalls \in 0..MaxCalls
    /\ pc = "Test" => Len(calls) = ncalls

=============================================================================
